---- MODULE Spec2Model ----
(***************************************************************************)
(* A model of proliphix.PDP (src/proliphix/proliphix.py): the OID          *)
(* registry, the cache _data, update() with its clock-drift correction,    *)
(* the write path _set() and the typed accessors.                          *)
(*                                                                         *)
(* Text.  A Python str is a sequence of one-character strings, so that     *)
(* sorting, joining, splitting and the int()/str() conversions are         *)
(* computed character by character as the code computes them.              *)
(*                                                                         *)
(* Values.  A Python value is a record [ty, n, s]:                         *)
(*   ty = "int"    n is the integer                                        *)
(*   ty = "float"  n is the number in hundredths (69.1 is n = 6910)        *)
(*   ty = "str"    s is the text                                           *)
(*   ty = "None"                                                           *)
(* The unused fields are 0 and <<>>.                                       *)
(***************************************************************************)
EXTENDS Integers, Sequences, FiniteSets, TLC

VARIABLES
  _host, _user, _passwd,  \* the client's fields, set by __init__
  _data,                  \* the cache: a function from names to values
  timezone,               \* time.timezone of the host
  last,                   \* the call made last: what it was given and what it did
  updated,                \* whether some update() has returned without an exception
  calls                   \* the number of calls made

vars == <<_host, _user, _passwd, _data, timezone, last, updated, calls>>

\* ------------------------------------------------------------------ values

PyInt(n) == [ty |-> "int", n |-> n, s |-> <<>>]
PyFloat(h) == [ty |-> "float", n |-> h, s |-> <<>>]
PyStr(t) == [ty |-> "str", n |-> 0, s |-> t]
PyNone == [ty |-> "None", n |-> 0, s |-> <<>>]

\* The number a value denotes, in hundredths (ints and floats only).
Hundredths(v) == IF v.ty = "int" THEN v.n * 100 ELSE v.n

\* Python's == on two values: numbers compare by value (2 == 2.0).
PyEq(a, b) ==
  IF a.ty \in {"int", "float"} /\ b.ty \in {"int", "float"}
    THEN Hundredths(a) = Hundredths(b)
    ELSE a = b

\* Integer division truncating toward zero, as int() truncates a float.
TruncDiv(a, b) == IF a >= 0 THEN a \div b ELSE -((-a) \div b)

\* -------------------------------------------------------------------- text

Digits == <<"0", "1", "2", "3", "4", "5", "6", "7", "8", "9">>

IsDigit(c) == \E i \in 1..10 : Digits[i] = c

DigitVal(c) == (CHOOSE i \in 1..10 : Digits[i] = c) - 1

\* The code point of a character of a dotted id.
Ord(c) == IF c = "." THEN 46 ELSE 48 + DigitVal(c)

RECURSIVE StrNat(_)
StrNat(n) ==
  IF n < 10 THEN <<Digits[n + 1]>>
  ELSE StrNat(n \div 10) \o <<Digits[(n % 10) + 1]>>

\* str(n) of an int.
StrInt(n) == IF n < 0 THEN <<"-">> \o StrNat(-n) ELSE StrNat(n)

RECURSIVE NatOf(_)
NatOf(t) ==
  IF t = <<>> THEN 0
  ELSE NatOf(SubSeq(t, 1, Len(t) - 1)) * 10 + DigitVal(t[Len(t)])

AllDigits(t) == t # <<>> /\ \A i \in 1..Len(t) : IsDigit(t[i])

\* int(t) of a str: an optional sign and decimal digits, else ValueError.
ParseInt(t) ==
  IF AllDigits(t) THEN [ok |-> TRUE, n |-> NatOf(t)]
  ELSE IF t # <<>> /\ t[1] \in {"-", "+"} /\ AllDigits(Tail(t))
    THEN [ok |-> TRUE, n |-> IF t[1] = "-" THEN -NatOf(Tail(t)) ELSE NatOf(Tail(t))]
  ELSE [ok |-> FALSE, n |-> 0]

\* int(v): of an int, a float (truncated toward zero) or a str.
IntOf(v) ==
  IF v.ty = "int" THEN [ok |-> TRUE, n |-> v.n]
  ELSE IF v.ty = "float" THEN [ok |-> TRUE, n |-> TruncDiv(v.n, 100)]
  ELSE ParseInt(v.s)

\* float(v) / 10, in hundredths: float() of a str takes the literals int()
\* takes (the device sends integers), else ValueError.
FloatDiv10(v) ==
  IF v.ty = "float" THEN [ok |-> TRUE, n |-> TruncDiv(v.n, 10)]
  ELSE [ok |-> IntOf(v).ok, n |-> IntOf(v).n * 10]

\* The positions lo..hi of t that hold sep, in ascending order.
RECURSIVE Positions(_, _, _, _)
Positions(t, sep, lo, hi) ==
  IF lo > hi THEN <<>>
  ELSE IF lo = hi THEN (IF t[lo] = sep THEN <<lo>> ELSE <<>>)
  ELSE Positions(t, sep, lo, (lo + hi) \div 2)
       \o Positions(t, sep, ((lo + hi) \div 2) + 1, hi)

\* t.split(sep): the pieces between the separators, at least one piece.
Split(t, sep) ==
  LET cuts == <<0>> \o Positions(t, sep, 1, Len(t)) \o <<Len(t) + 1>>
  IN [k \in 1..(Len(cuts) - 1) |-> SubSeq(t, cuts[k] + 1, cuts[k + 1] - 1)]

\* sep.join(parts)
RECURSIVE Join(_, _)
Join(parts, sep) ==
  IF parts = <<>> THEN <<>>
  ELSE IF Len(parts) = 1 THEN parts[1]
  ELSE parts[1] \o sep \o Join(Tail(parts), sep)

\* a < b on str: the first differing character decides, a proper prefix is less.
RECURSIVE StrLess(_, _)
StrLess(a, b) ==
  IF b = <<>> THEN FALSE
  ELSE IF a = <<>> THEN TRUE
  ELSE IF a[1] # b[1] THEN Ord(a[1]) < Ord(b[1])
  ELSE StrLess(Tail(a), Tail(b))

\* sorted(xs) of a list of distinct str: the least first.
RECURSIVE Sorted(_)
Sorted(xs) ==
  IF xs = {} THEN <<>>
  ELSE LET m == CHOOSE x \in xs : \A y \in xs \ {x} : StrLess(x, y)
       IN <<m>> \o Sorted(xs \ {m})

\* ---------------------------------------------------------------- registry

OIDS ==
  << <<<<"1", ".", "2">>, "DevName">>,
     <<<<"1", ".", "8">>, "SerialNum">>,
     <<<<"1", ".", "1", "0", ".", "9">>, "SiteName">>,
     <<<<"2", ".", "5", ".", "1">>, "Time">>,
     <<<<"2", ".", "7", ".", "1">>, "ModelName">>,
     <<<<"4", ".", "1", ".", "1">>, "HvacMode">>,
     <<<<"4", ".", "1", ".", "2">>, "HvacState">>,
     <<<<"4", ".", "1", ".", "3">>, "FanMode">>,
     <<<<"4", ".", "1", ".", "4">>, "FanState">>,
     <<<<"4", ".", "1", ".", "5">>, "SetbackHeat">>,
     <<<<"4", ".", "1", ".", "6">>, "SetbackCool">>,
     <<<<"4", ".", "1", ".", "1", "1">>, "CurrentClass">>,
     <<<<"4", ".", "1", ".", "1", "3">>, "AverageTemp">>,
     <<<<"4", ".", "1", ".", "1", "4">>, "RelHumidity">>,
     <<<<"4", ".", "5", ".", "1">>, "Heat1Usage">>,
     <<<<"4", ".", "5", ".", "3">>, "Cool1Usage">>,
     <<<<"4", ".", "5", ".", "5">>, "FanUsage">>,
     <<<<"4", ".", "5", ".", "6">>, "LastUsageReset">> >>

OidKeys == {OIDS[i][1] : i \in 1..Len(OIDS)}

Names == {OIDS[i][2] : i \in 1..Len(OIDS)}

HVAC_MODE_OFF == 1
HVAC_MODE_HEAT == 2
HVAC_MODE_COOL == 3
HVAC_MOVE_AUTO == 4

\* OIDS.get(oid): the name, or "" (None) for an id that is not registered.
OidsGet(oid) ==
  IF oid \in OidKeys
    THEN OIDS[CHOOSE i \in 1..Len(OIDS) : OIDS[i][1] = oid][2]
    ELSE ""

\* _get_oid(name): the first id registered with that name, or <<>> (None).
_get_oid(name) ==
  IF \E i \in 1..Len(OIDS) : OIDS[i][2] = name
    THEN OIDS[CHOOSE i \in 1..Len(OIDS) :
                /\ OIDS[i][2] = name
                /\ \A j \in 1..(i - 1) : OIDS[j][2] # name][1]
    ELSE <<>>

OidPrefix == <<"O", "I", "D">>

\* A variant of _all_oids without sorted(): the ids in the order of the dict.
_all_oids_unsorted ==
  Join([i \in 1..Len(OIDS) |-> OidPrefix \o OIDS[i][1] \o <<"=">>], <<"&">>)

\* _all_oids(): "OID<id>=" for every id, sorted as strings, joined by "&".
_all_oids ==
  LET keys == Sorted(OidKeys)
  IN Join([i \in 1..Len(keys) |-> OidPrefix \o keys[i] \o <<"=">>], <<"&">>)

\* ------------------------------------------------------------ the network

\* What requests.post does with one request: it raises (connection failure,
\* timeout) or returns a response with a status and a body. The code never
\* looks at the status.
Raises == [raises |-> TRUE, status |-> 0, text |-> <<>>]
Response(status, text) == [raises |-> FALSE, status |-> status, text |-> text]

\* requests.post(url, auth=(self._user, self._passwd), data=body)
Post(path, body) ==
  [url |-> <<"http://", _host, path>>, auth |-> <<_user, _passwd>>, data |-> body]

\* The outcome of a call: the cache after it, the requests it sent in order,
\* the exception it ended with ("" for none) and its return value.
Outcome(d, posts, exc, ret) == [data |-> d, posts |-> posts, exc |-> exc, ret |-> ret]

\* self._data[k] = v
Put(d, k, v) == [x \in (DOMAIN d) \cup {k} |-> IF x = k THEN v ELSE d[x]]

\* urlencode(data) of a dict of str keys and int values, in insertion order:
\* "key=str(value)" joined by "&" (no character of these needs quoting).
urlencode(pairs) ==
  Join([i \in 1..Len(pairs) |-> pairs[i][1] \o <<"=">> \o StrInt(pairs[i][2].n)], <<"&">>)

\* The dict _set builds from its keyword arguments: names without an OID are
\* dropped.
RECURSIVE SetPairs(_)
SetPairs(kwargs) ==
  IF kwargs = <<>> THEN <<>>
  ELSE LET oid == _get_oid(kwargs[1][1])
       IN (IF oid # <<>> THEN << <<OidPrefix \o oid, kwargs[1][2]>> >> ELSE <<>>)
          \o SetPairs(Tail(kwargs))

SubmitSuffix ==
  <<"&", "s", "u", "b", "m", "i", "t", "=", "S", "u", "b", "m", "i", "t">>

\* A variant of _set that sends the request again when it raised.
_set_retry(d, kwargs, net) ==
  LET form_data == urlencode(SetPairs(kwargs)) \o SubmitSuffix
      req == Post("/pdp", form_data)
  IN Outcome(d, IF net.raises THEN <<req, req>> ELSE <<req>>,
             IF net.raises THEN "ConnectionError" ELSE "", PyNone)

\* PDP._set(**kwargs), the write request answered by net.
_set(d, kwargs, net) ==
  LET form_data == urlencode(SetPairs(kwargs)) \o SubmitSuffix
  IN Outcome(d, <<Post("/pdp", form_data)>>,
             IF net.raises THEN "ConnectionError" ELSE "", PyNone)

\* ------------------------------------------------------------------ update

DriftLimit == 60

\* time.altzone of a host whose daylight time is one hour ahead.
altzone == timezone - 3600

Abs(x) == IF x < 0 THEN -x ELSE x

\* A variant of _clock_drift that writes the time it compared, daylight
\* offset included, instead of the standard time.
_clock_drift_writes_actual(d, now, is_dst, net) ==
  LET adj == IF is_dst = 1 THEN now - altzone ELSE now - timezone
      d1 == Put(d, "ActualTime", PyInt(adj))
      t == IntOf(d1["Time"])
  IN IF ~t.ok THEN Outcome(d1, <<>>, "ValueError", PyNone)
     ELSE IF Abs(adj - t.n) > DriftLimit
       THEN _set(d1, << <<"Time", PyInt(adj)>> >>, net)
     ELSE Outcome(d1, <<>>, "", PyNone)

\* PDP._clock_drift() at host time now (time.time()), with tm_isdst is_dst.
_clock_drift(d, now, is_dst, net) ==
  LET set_now == now - timezone
      adj == IF is_dst = 1 THEN now - altzone ELSE now - timezone
      d1 == Put(d, "ActualTime", PyInt(adj))
      t == IntOf(d1["Time"])
      drift == adj - t.n
  IN IF ~t.ok THEN Outcome(d1, <<>>, "ValueError", PyNone)
     ELSE IF Abs(drift) > DriftLimit
       THEN _set(d1, << <<"Time", PyInt(set_now)>> >>, net)
     ELSE Outcome(d1, <<>>, "", PyNone)

\* The loop of update() over r.text.split('&'): a line that does not split
\* into exactly two parts at '=' ends the loop with ValueError.
RECURSIVE ParseLines(_, _)
ParseLines(lines, d) ==
  IF lines = <<>> THEN [data |-> d, exc |-> ""]
  ELSE IF lines[1] = <<>> THEN ParseLines(Tail(lines), d)
  ELSE LET parts == Split(lines[1], "=")
       IN IF Len(parts) # 2 THEN [data |-> d, exc |-> "ValueError"]
          ELSE LET const == OidsGet(SubSeq(parts[1], 4, Len(parts[1])))
               IN ParseLines(Tail(lines),
                             IF const # "" THEN Put(d, const, PyStr(parts[2])) ELSE d)

\* PDP.update() up to its call of _clock_drift(): the read request, answered
\* by r, and the loop over the lines of the answer.
update_read(d, r) ==
  LET req == Post("/get", _all_oids)
  IN IF r.raises THEN Outcome(d, <<req>>, "ConnectionError", PyNone)
     ELSE LET parsed == ParseLines(Split(r.text, "&"), Put(d, "Time", PyInt(0)))
          IN Outcome(parsed.data, <<req>>, parsed.exc, PyNone)

\* The rest of PDP.update() after update_read ended as rd: nothing when it
\* raised, else _clock_drift(), whose write is answered by net.
update_drift(rd, now, is_dst, net) ==
  IF rd.exc # "" THEN rd
  ELSE LET cd == _clock_drift(rd.data, now, is_dst, net)
       IN Outcome(cd.data, rd.posts \o cd.posts, cd.exc, PyNone)

\* --------------------------------------------------------------- accessors

PyBool(b) == [ty |-> "bool", n |-> IF b THEN 1 ELSE 0, s |-> <<>>]

\* The result of a property read: a value, or the exception it raised.
Value(v) == [exc |-> "", ret |-> v]
Raised(e) == [exc |-> e, ret |-> PyNone]

\* A variant of IntField that reads with a default: int(self._data.get(k, 0)).
IntFieldOrZero(d, k) ==
  IF k \notin DOMAIN d THEN Value(PyInt(0))
  ELSE IF ~IntOf(d[k]).ok THEN Raised("ValueError")
  ELSE Value(PyInt(IntOf(d[k]).n))

\* int(self._data[k])
IntField(d, k) ==
  IF k \notin DOMAIN d THEN Raised("KeyError")
  ELSE IF ~IntOf(d[k]).ok THEN Raised("ValueError")
  ELSE Value(PyInt(IntOf(d[k]).n))

\* A variant of TempField without the division: float(self._data[k]).
TempFieldTenths(d, k) ==
  IF k \notin DOMAIN d THEN Raised("KeyError")
  ELSE IF ~IntOf(d[k]).ok THEN Raised("ValueError")
  ELSE Value(PyFloat(IntOf(d[k]).n * 100))

\* float(self._data[k]) / 10
TempField(d, k) ==
  IF k \notin DOMAIN d THEN Raised("KeyError")
  ELSE IF ~FloatDiv10(d[k]).ok THEN Raised("ValueError")
  ELSE Value(PyFloat(FloatDiv10(d[k]).n))

\* self._data[k]
RawField(d, k) == IF k \notin DOMAIN d THEN Raised("KeyError") ELSE Value(d[k])

is_cooling(d) ==
  LET m == IntField(d, "HvacMode")
  IN IF m.exc # "" THEN m ELSE Value(PyBool(m.ret.n = HVAC_MODE_COOL))

is_heating(d) ==
  LET m == IntField(d, "HvacMode")
  IN IF m.exc # "" THEN m ELSE Value(PyBool(m.ret.n = HVAC_MODE_HEAT))

hvac_mode(d) == IntField(d, "HvacMode")

cur_temp(d) == TempField(d, "AverageTemp")

humidity(d) == IntField(d, "RelHumidity")

setback_heat(d) == TempField(d, "SetbackHeat")

setback_cool(d) == TempField(d, "SetbackCool")

setback(d) ==
  LET c == is_cooling(d)
      h == is_heating(d)
  IN IF c.exc # "" THEN c
     ELSE IF c.ret.n = 1 THEN setback_cool(d)
     ELSE IF h.exc # "" THEN h
     ELSE IF h.ret.n = 1 THEN setback_heat(d)
     ELSE Value(PyNone)

hvac_state(d) == IntField(d, "HvacState")

\* "%s:%s" % (SiteName, DevName); both are str when present.
name(d) ==
  IF "SiteName" \notin DOMAIN d \/ "DevName" \notin DOMAIN d THEN Raised("KeyError")
  ELSE Value(PyStr(d["SiteName"].s \o <<":">> \o d["DevName"].s))

serial_num(d) == RawField(d, "SerialNum")

model(d) == RawField(d, "ModelName")

fan_state(d) ==
  IF "FanState" \notin DOMAIN d THEN Raised("KeyError")
  ELSE IF d["FanState"] = PyStr(<<"2">>) THEN Value(PyStr(<<"O", "n">>))
  ELSE Value(PyStr(<<"O", "f", "f">>))

fan_mode(d) == IntField(d, "FanMode")

Accessors ==
  {"cur_temp", "humidity", "hvac_mode", "hvac_state", "fan_mode", "fan_state",
   "setback_heat", "setback_cool", "setback", "is_heating", "is_cooling",
   "name", "serial_num", "model"}

\* pdp.<a>
Get(a, d) ==
  CASE a = "cur_temp" -> cur_temp(d)
    [] a = "humidity" -> humidity(d)
    [] a = "hvac_mode" -> hvac_mode(d)
    [] a = "hvac_state" -> hvac_state(d)
    [] a = "fan_mode" -> fan_mode(d)
    [] a = "fan_state" -> fan_state(d)
    [] a = "setback_heat" -> setback_heat(d)
    [] a = "setback_cool" -> setback_cool(d)
    [] a = "setback" -> setback(d)
    [] a = "is_heating" -> is_heating(d)
    [] a = "is_cooling" -> is_cooling(d)
    [] a = "name" -> name(d)
    [] a = "serial_num" -> serial_num(d)
    [] a = "model" -> model(d)

\* ----------------------------------------------------------------- setters

\* A variant of TimesTen that rounds to the nearest integer: int(round(val * 10)).
TimesTenRounded(val) == TruncDiv(Hundredths(val) * 10 + 50, 100)

\* int(val * 10) of a number val
TimesTen(val) == TruncDiv(Hundredths(val) * 10, 100)

\* self._data[k] = n; self._set(k=self._data[k])
StoreAndSet(d, k, n, net) ==
  LET d1 == Put(d, k, PyInt(n))
  IN _set(d1, << <<k, d1[k]>> >>, net)

set_setback_heat(d, val, net) == StoreAndSet(d, "SetbackHeat", TimesTen(val), net)

set_setback_cool(d, val, net) == StoreAndSet(d, "SetbackCool", TimesTen(val), net)

set_hvac_mode(d, val, net) == StoreAndSet(d, "HvacMode", IntOf(val).n, net)

set_hvac_state(d, val, net) == StoreAndSet(d, "HvacState", IntOf(val).n, net)

set_fan_mode(d, val, net) == StoreAndSet(d, "FanMode", IntOf(val).n, net)

\* The generic setter: it dispatches on the cached mode and does nothing when
\* the mode is neither COOL nor HEAT.
set_setback(d, val, net) ==
  LET c == is_cooling(d)
      h == is_heating(d)
  IN IF c.exc # "" THEN Outcome(d, <<>>, c.exc, PyNone)
     ELSE IF c.ret.n = 1 THEN set_setback_cool(d, val, net)
     ELSE IF h.exc # "" THEN Outcome(d, <<>>, h.exc, PyNone)
     ELSE IF h.ret.n = 1 THEN set_setback_heat(d, val, net)
     ELSE Outcome(d, <<>>, "", PyNone)

\* ----------------------------------------------------- the environment

Hosts == {"nt20e"}
Users == {"admin"}
Passwords == {"secret"}

\* time.timezone of the host: seconds west of UTC in standard time.
TimeZones == {0, 18000}

\* What the clock reads when update() runs: time.time() and tm_isdst.
HostTimes ==
  {[now |-> 18030, is_dst |-> 0], [now |-> 90000, is_dst |-> 0],
   [now |-> 90060, is_dst |-> 0], [now |-> 90061, is_dst |-> 0],
   [now |-> 90000, is_dst |-> 1]}

\* One segment of a read response, and a response body.
Segment(oid, value) == OidPrefix \o oid \o <<"=">> \o value

\* A device that answers every registered id; its clock reads 72000.
FullText ==
  Join(<< Segment(<<"1", ".", "2">>, <<"T", "1">>),
          Segment(<<"1", ".", "8">>, <<"7", "7">>),
          Segment(<<"1", ".", "1", "0", ".", "9">>, <<"S", "1">>),
          Segment(<<"2", ".", "5", ".", "1">>, <<"7", "2", "0", "0", "0">>),
          Segment(<<"2", ".", "7", ".", "1">>, <<"N", "T", "2", "0">>),
          Segment(<<"4", ".", "1", ".", "1">>, <<"2">>),
          Segment(<<"4", ".", "1", ".", "2">>, <<"3">>),
          Segment(<<"4", ".", "1", ".", "3">>, <<"1">>),
          Segment(<<"4", ".", "1", ".", "4">>, <<"2">>),
          Segment(<<"4", ".", "1", ".", "5">>, <<"6", "8", "8">>),
          Segment(<<"4", ".", "1", ".", "6">>, <<"7", "6", "0">>),
          Segment(<<"4", ".", "1", ".", "1", "1">>, <<"1">>),
          Segment(<<"4", ".", "1", ".", "1", "3">>, <<"7", "0", "2">>),
          Segment(<<"4", ".", "1", ".", "1", "4">>, <<"4", "1">>),
          Segment(<<"4", ".", "5", ".", "1">>, <<"5">>),
          Segment(<<"4", ".", "5", ".", "3">>, <<"0">>),
          Segment(<<"4", ".", "5", ".", "5">>, <<"9">>),
          Segment(<<"4", ".", "5", ".", "6">>, <<"1", "0", "0">>) >>, <<"&">>)

\* A device that answers two registered ids and one that is not registered,
\* omits Time, and ends its body with a separator.
PartialText ==
  Join(<< Segment(<<"4", ".", "1", ".", "1">>, <<"3">>),
          Segment(<<"9", ".", "9">>, <<"1">>),
          Segment(<<"4", ".", "1", ".", "6">>, <<"7", "4", "5">>),
          <<>> >>, <<"&">>)

\* A well-formed segment followed by one with no "=".
MalformedText ==
  Join(<< Segment(<<"4", ".", "1", ".", "1">>, <<"3">>),
          <<"n", "o", "n", "s", "e", "n", "s", "e">> >>, <<"&">>)

\* A Time that is not a number.
BadTimeText == Segment(<<"2", ".", "5", ".", "1">>, <<"s", "o", "o", "n">>)

\* What the read request may get; the last is an error status with an empty body.
GetAnswers ==
  {Raises, Response(200, FullText), Response(200, PartialText),
   Response(200, MalformedText), Response(200, BadTimeText), Response(401, <<>>)}

\* What a write request may get.
SetAnswers == {Raises, Response(200, <<>>), Response(500, <<>>)}

\* No request of that kind was sent.
NoAnswer == [raises |-> FALSE, status |-> 0, text |-> <<>>]

\* Values a caller assigns to a setback (degrees) and to an enumeration.
SetbackVals == {PyFloat(6910), PyFloat(6915)}
EnumVals == {PyInt(1), PyFloat(250)}

\* The number of calls made on one client.
MaxCalls == 2

\* ------------------------------------------------------------ the machine

NoCall ==
  [op |-> "", arg |-> PyNone, exc |-> "", ret |-> PyNone, posts |-> <<>>,
   r |-> NoAnswer, net |-> NoAnswer, drift_ran |-> FALSE, now |-> 0, is_dst |-> 0]

\* PDP.__init__(host, user, passwd)
Init ==
  /\ _host \in Hosts
  /\ _user \in Users
  /\ _passwd \in Passwords
  /\ _data = <<>>
  /\ timezone \in TimeZones
  /\ last = NoCall
  /\ updated = FALSE
  /\ calls = 0

Sent(posts, path) == \E i \in 1..Len(posts) : posts[i].url[3] = path

\* The call just made becomes last; the cache becomes what the call left.
Record(op, arg, result, r, net, t, drifted) ==
  LET out == result IN
  /\ calls' = calls + 1
  /\ _data' = out.data
  /\ last' = [op |-> op, arg |-> arg, exc |-> out.exc, ret |-> out.ret,
              posts |-> out.posts, r |-> r, net |-> net,
              drift_ran |-> drifted, now |-> t.now, is_dst |-> t.is_dst]
  /\ updated' = (updated \/ (op = "update" /\ out.exc = ""))
  /\ UNCHANGED <<_host, _user, _passwd, timezone>>

\* The clock was not read.
NoTime == [now |-> 0, is_dst |-> 0]

\* The answers a call may get to its write: those of SetAnswers when the
\* call, as it ends when answered by NoAnswer, sends a write, else none.
WriteAnswers(probe) == IF Sent(probe.posts, "/pdp") THEN SetAnswers ELSE {NoAnswer}

\* pdp.update(): the read is answered by r; the clock is read at t when the
\* answer was parsed to the end; the write, when one is sent, is answered by net.
Update ==
  /\ calls < MaxCalls
  /\ \E r \in GetAnswers :
       \E rd \in {update_read(_data, r)} :
         \E t \in IF rd.exc = "" THEN HostTimes ELSE {NoTime} :
           \E net \in WriteAnswers(update_drift(rd, t.now, t.is_dst, NoAnswer)) :
             Record("update", PyNone, update_drift(rd, t.now, t.is_dst, net), r, net, t,
                    rd.exc = "")

\* pdp.setback_heat = val
SetSetbackHeat ==
  /\ calls < MaxCalls
  /\ \E val \in SetbackVals, net \in SetAnswers :
       Record("setback_heat=", val, set_setback_heat(_data, val, net), NoAnswer, net, NoTime, FALSE)

\* pdp.setback_cool = val
SetSetbackCool ==
  /\ calls < MaxCalls
  /\ \E val \in SetbackVals, net \in SetAnswers :
       Record("setback_cool=", val, set_setback_cool(_data, val, net), NoAnswer, net, NoTime, FALSE)

\* pdp.setback = val
SetSetback ==
  /\ calls < MaxCalls
  /\ \E val \in SetbackVals :
       \E net \in WriteAnswers(set_setback(_data, val, NoAnswer)) :
         Record("setback=", val, set_setback(_data, val, net), NoAnswer, net, NoTime, FALSE)

\* pdp.hvac_mode = val
SetHvacMode ==
  /\ calls < MaxCalls
  /\ \E val \in EnumVals, net \in SetAnswers :
       Record("hvac_mode=", val, set_hvac_mode(_data, val, net), NoAnswer, net, NoTime, FALSE)

\* pdp.hvac_state = val
SetHvacState ==
  /\ calls < MaxCalls
  /\ \E val \in EnumVals, net \in SetAnswers :
       Record("hvac_state=", val, set_hvac_state(_data, val, net), NoAnswer, net, NoTime, FALSE)

\* pdp.fan_mode = val
SetFanMode ==
  /\ calls < MaxCalls
  /\ \E val \in EnumVals, net \in SetAnswers :
       Record("fan_mode=", val, set_fan_mode(_data, val, net), NoAnswer, net, NoTime, FALSE)

\* pdp.<a>: a read of a typed accessor.
Read ==
  /\ calls < MaxCalls
  /\ \E a \in Accessors :
       \E got \in {Get(a, _data)} :
         Record(a, PyNone, Outcome(_data, <<>>, got.exc, got.ret), NoAnswer, NoAnswer, NoTime, FALSE)

Next ==
  \/ Update
  \/ SetSetbackHeat
  \/ SetSetbackCool
  \/ SetSetback
  \/ SetHvacMode
  \/ SetHvacState
  \/ SetFanMode
  \/ Read

Spec == Init /\ [][Next]_vars

\* ------------------------------------------------------------- the claims

WriteOps == {"setback_heat=", "setback_cool=", "hvac_mode=", "hvac_state=", "fan_mode="}

SetterOps == WriteOps \cup {"setback="}

Is2xx(answer) == ~answer.raises /\ answer.status \in 200..299

PdpUrl == <<"http://", _host, "/pdp">>

GetUrl == <<"http://", _host, "/get">>

SubmitText == <<"&", "s", "u", "b", "m", "i", "t", "=", "S", "u", "b", "m", "i", "t">>

\* Whether the cache holds the same for key k before and after a step.
SameField(k) ==
  IF k \in DOMAIN _data THEN k \in DOMAIN _data' /\ _data'[k] = _data[k]
  ELSE k \notin DOMAIN _data'

\* The dotted id the claim names for each write accessor.
C1_Oid(op) ==
  CASE op = "setback_heat=" -> <<"4", ".", "1", ".", "5">>
    [] op = "setback_cool=" -> <<"4", ".", "1", ".", "6">>
    [] op = "hvac_mode=" -> <<"4", ".", "1", ".", "1">>
    [] op = "hvac_state=" -> <<"4", ".", "1", ".", "2">>
    [] op = "fan_mode=" -> <<"4", ".", "1", ".", "3">>

\* The value times 10 truncated for a setback, the integer for an enumeration.
C1_Encoded(op, val) ==
  IF op \in {"setback_heat=", "setback_cool="}
    THEN TruncDiv(Hundredths(val), 10)
    ELSE TruncDiv(Hundredths(val), 100)

\* C1: a call of a write accessor (setback_heat, setback_cool, hvac_mode,
\* hvac_state, fan_mode) sends exactly one POST, to http://{host}/pdp with the
\* (user, password) auth, whose body is OID{id}={encoded value}&submit=Submit
\* and nothing else; setback_heat = 69.1 gives OID4.1.5=691&submit=Submit.
C1_SetterPost ==
  /\ last.op \in WriteOps =>
       last.posts =
         << [url |-> PdpUrl, auth |-> <<_user, _passwd>>,
             data |-> <<"O", "I", "D">> \o C1_Oid(last.op) \o <<"=">>
                      \o StrInt(C1_Encoded(last.op, last.arg)) \o SubmitText] >>
  /\ (last.op = "setback_heat=" /\ last.arg = PyFloat(6910)) =>
       last.posts[1].data =
         <<"O", "I", "D", "4", ".", "1", ".", "5", "=", "6", "9", "1", "&",
           "s", "u", "b", "m", "i", "t", "=", "S", "u", "b", "m", "i", "t">>

C1_Witness ==
  /\ last.op = "setback_heat="
  /\ last.arg = PyFloat(6910)
  /\ Len(last.posts) = 1
  /\ last.posts[1].url = PdpUrl
  /\ calls = 2

\* The body the claim gives: the 18 ids in ascending order as strings.
C2_Body ==
     <<"O", "I", "D", "1", ".", "1", "0", ".", "9", "=", "&">>
  \o <<"O", "I", "D", "1", ".", "2", "=", "&">>
  \o <<"O", "I", "D", "1", ".", "8", "=", "&">>
  \o <<"O", "I", "D", "2", ".", "5", ".", "1", "=", "&">>
  \o <<"O", "I", "D", "2", ".", "7", ".", "1", "=", "&">>
  \o <<"O", "I", "D", "4", ".", "1", ".", "1", "=", "&">>
  \o <<"O", "I", "D", "4", ".", "1", ".", "1", "1", "=", "&">>
  \o <<"O", "I", "D", "4", ".", "1", ".", "1", "3", "=", "&">>
  \o <<"O", "I", "D", "4", ".", "1", ".", "1", "4", "=", "&">>
  \o <<"O", "I", "D", "4", ".", "1", ".", "2", "=", "&">>
  \o <<"O", "I", "D", "4", ".", "1", ".", "3", "=", "&">>
  \o <<"O", "I", "D", "4", ".", "1", ".", "4", "=", "&">>
  \o <<"O", "I", "D", "4", ".", "1", ".", "5", "=", "&">>
  \o <<"O", "I", "D", "4", ".", "1", ".", "6", "=", "&">>
  \o <<"O", "I", "D", "4", ".", "5", ".", "1", "=", "&">>
  \o <<"O", "I", "D", "4", ".", "5", ".", "3", "=", "&">>
  \o <<"O", "I", "D", "4", ".", "5", ".", "5", "=", "&">>
  \o <<"O", "I", "D", "4", ".", "5", ".", "6", "=">>

C3_TransportError(l) ==
  \/ ~Is2xx(l.r)
  \/ Len(l.posts) = 2 /\ ~Is2xx(l.net)

\* C3: when a request made during update() fails with a transport error
\* (connection failure, timeout, non-2xx status), update() reports the error
\* and the cache is exactly what it was before the call.
C3_UpdateFailureKeepsCache ==
  [][(last'.op = "update" /\ calls' = calls + 1 /\ C3_TransportError(last'))
       => (last'.exc # "" /\ _data' = _data)]_vars

\* The fields a setter may store.
C4_Fields(op) ==
  CASE op = "setback_heat=" -> {"SetbackHeat"}
    [] op = "setback_cool=" -> {"SetbackCool"}
    [] op = "hvac_mode=" -> {"HvacMode"}
    [] op = "hvac_state=" -> {"HvacState"}
    [] op = "fan_mode=" -> {"FanMode"}
    [] op = "setback=" -> {"SetbackHeat", "SetbackCool"}

\* C4: when the write request of a setter fails with a transport error, the
\* setter reports the failure and the cache holds for that field what it held
\* before the call.
C4_SetterFailureKeepsField ==
  [][(last'.op \in SetterOps /\ calls' = calls + 1
        /\ Len(last'.posts) = 1 /\ ~Is2xx(last'.net))
       => (last'.exc # "" /\ \A k \in C4_Fields(last'.op) : SameField(k))]_vars

\* C5: when update() returns without error the cache has an entry for every
\* one of the 18 registered names, whatever the response held.
C5_UpdateFillsCache ==
  (last.op = "update" /\ last.exc = "") => Names \subseteq DOMAIN _data

\* C6 as claimed: no call sends more than one POST, /get and /pdp counted
\* together, and a read accessor sends none.
C6_AtMostOnePost ==
  /\ Len(last.posts) <= 1
  /\ last.op \in Accessors => last.posts = <<>>

\* C6: a call of update() sends one POST to /get and after it at most one
\* POST to /pdp, so at most two; a call of a setter sends at most one POST,
\* to /pdp; a read accessor sends none.
C6_PostsPerCall ==
  /\ last.op = "update" =>
       /\ Len(last.posts) \in {1, 2}
       /\ last.posts[1].url = GetUrl
       /\ Len(last.posts) = 2 => last.posts[2].url = PdpUrl
  /\ last.op \in SetterOps =>
       /\ Len(last.posts) <= 1
       /\ \A i \in 1..Len(last.posts) : last.posts[i].url = PdpUrl
  /\ last.op \in Accessors => last.posts = <<>>

C6_Witness ==
  /\ last.op = "update"
  /\ Len(last.posts) = 2
  /\ last.posts[2].url = PdpUrl

\* What C7 says of an update() whose _clock_drift() ran, but for the case of a
\* device Time of 0: ActualTime is now minus the daylight offset in DST and
\* now minus the standard offset otherwise; the Time write is sent iff
\* |ActualTime - int(Time)| > 60; it carries now minus the standard offset.
C7_Common ==
  LET std == last.now - timezone
      actual == IF last.is_dst = 1 THEN last.now - altzone ELSE std
      dev == IntOf(_data["Time"])
      wrote == Len(last.posts) = 2
  IN /\ _data["ActualTime"] = PyInt(actual)
     /\ dev.ok => (wrote <=> Abs(actual - dev.n) > 60)
     /\ wrote =>
          last.posts[2] =
            [url |-> PdpUrl, auth |-> <<_user, _passwd>>,
             data |-> <<"O", "I", "D", "2", ".", "5", ".", "1", "=">>
                      \o StrInt(std) \o SubmitText]

\* C7 as claimed: besides, a device Time of 0 (or a response that omits Time)
\* triggers the corrective write for any host time.
C7_ZeroTimeAlwaysWrites ==
  (last.op = "update" /\ last.drift_ran) =>
    /\ C7_Common
    /\ _data["Time"] = PyInt(0) => Len(last.posts) = 2

\* C7: in update(), after the response is parsed, ActualTime is now minus the
\* daylight offset in DST and now minus the standard offset otherwise; the
\* write of the single field Time is sent iff |ActualTime - int(Time)| > 60
\* (Time being an integer literal) and always carries now minus the standard
\* offset; a device Time of 0, or a response that omits Time, triggers the
\* write exactly when ActualTime is more than 60 away from 0.
C7_DriftCorrection ==
  (last.op = "update" /\ last.drift_ran) =>
    /\ C7_Common
    /\ _data["Time"] = PyInt(0) =>
         (Len(last.posts) = 2 <=> Abs(_data["ActualTime"].n) > 60)

C7_Witness ==
  /\ last.op = "update"
  /\ last.drift_ran
  /\ last.is_dst = 1
  /\ _data["ActualTime"] = PyInt(75600)
  /\ Len(last.posts) = 2
  /\ last.posts[2].data =
       <<"O", "I", "D", "2", ".", "5", ".", "1", "=", "7", "2", "0", "0", "0">>
       \o SubmitText

\* C8 as claimed: until an update() has completed, every typed read accessor
\* fails with a field-not-present error, whatever was called before.
C8_FailsUntilUpdated ==
  (~updated /\ last.op \in Accessors) => last.exc = "KeyError"

\* The fields an accessor reads before anything else.
C8_Reads(a) ==
  CASE a = "cur_temp" -> {"AverageTemp"}
    [] a = "humidity" -> {"RelHumidity"}
    [] a = "hvac_mode" -> {"HvacMode"}
    [] a = "hvac_state" -> {"HvacState"}
    [] a = "fan_mode" -> {"FanMode"}
    [] a = "fan_state" -> {"FanState"}
    [] a = "setback_heat" -> {"SetbackHeat"}
    [] a = "setback_cool" -> {"SetbackCool"}
    [] a \in {"setback", "is_heating", "is_cooling"} -> {"HvacMode"}
    [] a = "name" -> {"SiteName", "DevName"}
    [] a = "serial_num" -> {"SerialNum"}
    [] a = "model" -> {"ModelName"}

\* C8: the cache of a new client is empty, and a typed read accessor fails
\* with a field-not-present error whenever the cache has no entry for a field
\* it reads; so every accessor fails as long as the cache is empty.
C8_FailsWhileAbsent ==
  /\ calls = 0 => _data = <<>>
  /\ (last.op \in Accessors /\ ~(C8_Reads(last.op) \subseteq DOMAIN _data)) =>
       (last.exc = "KeyError" /\ last.ret = PyNone)

C8_Witness ==
  /\ last.op \in Accessors
  /\ _data = <<>>
  /\ last.exc = "KeyError"
  /\ calls = 2

C9_Getter(op) ==
  CASE op = "setback_heat=" -> "setback_heat"
    [] op = "setback_cool=" -> "setback_cool"
    [] op = "hvac_mode=" -> "hvac_mode"
    [] op = "hvac_state=" -> "hvac_state"
    [] op = "fan_mode=" -> "fan_mode"

\* C9 as claimed: setting a writable field to v and then reading the
\* same-named accessor returns v, and the read sends no request.
C9_ReadsBackExactly ==
  [][(last.op \in WriteOps /\ last'.op = C9_Getter(last.op))
       => (last'.exc = "" /\ PyEq(last'.ret, last.arg) /\ last'.posts = <<>>)]_vars

\* v cut to a whole number of tenths (a setback) or to an integer.
C9_Stored(op, v) ==
  IF op \in {"setback_heat=", "setback_cool="}
    THEN PyFloat(TruncDiv(Hundredths(v), 10) * 10)
    ELSE PyInt(TruncDiv(Hundredths(v), 100))

\* C9: setting a writable field to v and then reading the same-named
\* accessor returns int(v * 10) / 10 for a setback and int(v) for an
\* enumeration, which is v when v is a whole number of tenths (an integer);
\* the read sends no request.
C9_ReadsBackStored ==
  [][(last.op \in WriteOps /\ last'.op = C9_Getter(last.op))
       => (/\ last'.exc = ""
           /\ PyEq(last'.ret, C9_Stored(last.op, last.arg))
           /\ last'.posts = <<>>)]_vars

C9_Witness ==
  /\ last.op = "setback_heat"
  /\ last.ret = PyFloat(6910)
  /\ last.posts = <<>>
  /\ ~updated
  /\ "SetbackHeat" \in DOMAIN _data
  /\ _data["SetbackHeat"] = PyInt(691)

\* A body with a non-empty segment that has no "=".
C10_Malformed(text) ==
  \E i \in DOMAIN Split(text, "&") :
    LET line == Split(text, "&")[i]
    IN line # <<>> /\ \A j \in 1..Len(line) : line[j] # "="

\* C10: when the read response has a malformed segment, update() fails and
\* applies nothing: the cache is what it was before the call, and no
\* corrective time write is sent.
C10_MalformedAppliesNothing ==
  [][(last'.op = "update" /\ calls' = calls + 1
        /\ ~last'.r.raises /\ C10_Malformed(last'.r.text))
       => (last'.exc # "" /\ _data' = _data /\ ~Sent(last'.posts, "/pdp"))]_vars

====
